---- MODULE Spec2Model ----
(***************************************************************************)
(* Model of runtime/src/source.rs: the ProbeTracker pacer and the event    *)
(* loop built by TimerSource::spawn (timer.select(adapter).for_each).      *)
(***************************************************************************)
EXTENDS Integers, Sequences, FiniteSets, TLC

(***************************************************************************)
(* Arbitrary-precision naturals, needed because the pacer computes its     *)
(* target in f64 (53-bit significands).  A natural is the sequence of its  *)
(* base-2^15 digits, least significant first, with no zero digit at the    *)
(* top; <<>> is 0.                                                         *)
(***************************************************************************)
Base == 2^15

RECURSIVE Pow2(_)
Pow2(k) == IF k = 0 THEN 1 ELSE 2 * Pow2(k - 1)

RECURSIVE DigitsOf(_)
DigitsOf(n) == IF n = 0 THEN <<>> ELSE <<n % Base>> \o DigitsOf(n \div Base)

RECURSIVE NatOf(_)
NatOf(b) == IF b = <<>> THEN 0 ELSE Head(b) + Base * NatOf(Tail(b))

RECURSIVE Trim(_)
Trim(b) ==
  IF b = <<>> THEN <<>>
  ELSE IF b[Len(b)] = 0 THEN Trim(SubSeq(b, 1, Len(b) - 1))
  ELSE b

RECURSIVE Zeros(_)
Zeros(k) == IF k <= 0 THEN <<>> ELSE <<0>> \o Zeros(k - 1)

\* Compare two trimmed naturals from digit i downwards: -1, 0 or 1.
RECURSIVE BCmpFrom(_, _, _)
BCmpFrom(a, b, i) ==
  IF i = 0 THEN 0
  ELSE IF a[i] > b[i] THEN 1
  ELSE IF a[i] < b[i] THEN -1
  ELSE BCmpFrom(a, b, i - 1)

BCmp(a, b) ==
  IF Len(a) > Len(b) THEN 1
  ELSE IF Len(a) < Len(b) THEN -1
  ELSE BCmpFrom(a, b, Len(a))

DigitAt(a, i) == IF i <= Len(a) THEN a[i] ELSE 0

RECURSIVE BAddFrom(_, _, _, _)
BAddFrom(a, b, i, carry) ==
  IF i > Len(a) /\ i > Len(b)
  THEN (IF carry = 1 THEN <<1>> ELSE <<>>)
  ELSE LET s == DigitAt(a, i) + DigitAt(b, i) + carry
       IN  <<s % Base>> \o BAddFrom(a, b, i + 1, s \div Base)

BAdd(a, b) == BAddFrom(a, b, 1, 0)

\* a - b for a >= b
RECURSIVE BSubFrom(_, _, _, _)
BSubFrom(a, b, i, borrow) ==
  IF i > Len(a) THEN <<>>
  ELSE LET d == DigitAt(a, i) - DigitAt(b, i) - borrow
       IN  <<d % Base>> \o BSubFrom(a, b, i + 1, IF d < 0 THEN 1 ELSE 0)

BSub(a, b) == Trim(BSubFrom(a, b, 1, 0))

\* a * s for a single digit s
RECURSIVE MulDigitFrom(_, _, _, _)
MulDigitFrom(a, s, i, carry) ==
  IF i > Len(a) THEN (IF carry > 0 THEN <<carry>> ELSE <<>>)
  ELSE LET p == a[i] * s + carry
       IN  <<p % Base>> \o MulDigitFrom(a, s, i + 1, p \div Base)

MulDigit(a, s) == IF s = 0 THEN <<>> ELSE MulDigitFrom(a, s, 1, 0)

\* floor(a / s) for a single digit s > 0, digits i..1 still to divide
RECURSIVE DivDigitFrom(_, _, _, _)
DivDigitFrom(a, s, i, rem) ==
  IF i = 0 THEN <<>>
  ELSE LET cur == rem * Base + a[i]
       IN  DivDigitFrom(a, s, i - 1, cur % s) \o <<cur \div s>>

\* a * 2^k
Shl(a, k) ==
  IF a = <<>> THEN <<>>
  ELSE Zeros(k \div 15) \o MulDigit(a, Pow2(k % 15))

\* floor(a / 2^k)
Shr(a, k) ==
  IF k \div 15 >= Len(a) THEN <<>>
  ELSE LET hi == SubSeq(a, k \div 15 + 1, Len(a))
       IN  Trim(DivDigitFrom(hi, Pow2(k % 15), Len(hi), 0))

\* Number of bits of a; bit i of a, counted from 0
RECURSIVE BitLenNat(_)
BitLenNat(n) == IF n = 0 THEN 0 ELSE 1 + BitLenNat(n \div 2)

BitLen(a) == IF a = <<>> THEN 0 ELSE 15 * (Len(a) - 1) + BitLenNat(a[Len(a)])

BitAt(a, i) == (DigitAt(a, i \div 15 + 1) \div Pow2(i % 15)) % 2

\* a * b, digit i of b upwards
RECURSIVE BMulFrom(_, _, _)
BMulFrom(a, b, i) ==
  IF i > Len(b) THEN <<>>
  ELSE BAdd(Zeros(i - 1) \o MulDigit(a, b[i]), BMulFrom(a, b, i + 1))

BMul(a, b) == IF a = <<>> \/ b = <<>> THEN <<>> ELSE Trim(BMulFrom(a, b, 1))

\* One step of binary long division by d: bring down one bit of the dividend.
DivStep(st, bit, d) ==
  LET r2 == Trim(BAdd(BAdd(st.rem, st.rem), IF bit = 1 THEN <<1>> ELSE <<>>))
      q2 == BAdd(st.quot, st.quot)
  IN  IF BCmp(r2, d) >= 0
      THEN [quot |-> BAdd(q2, <<1>>), rem |-> BSub(r2, d)]
      ELSE [quot |-> q2, rem |-> r2]

\* Long division over bits hi..lo of n, most significant first.  The range is
\* halved, and the upper half's result is used in a test before the lower
\* half starts, so that the evaluation depth stays logarithmic.
RECURSIVE BDivBits(_, _, _, _, _)
BDivBits(n, d, hi, lo, st) ==
  IF hi < lo THEN st
  ELSE IF hi = lo THEN DivStep(st, BitAt(n, hi), d)
  ELSE LET mid == (hi + lo + 1) \div 2
           up  == BDivBits(n, d, hi, mid, st)
       IN  IF Len(up.rem) >= 0 THEN BDivBits(n, d, mid - 1, lo, up) ELSE up

BDivMod(n, d) == BDivBits(n, d, BitLen(n) - 1, 0, [quot |-> <<>>, rem |-> <<>>])

(***************************************************************************)
(* IEEE-754 binary64 values in the normal range.  A value is               *)
(* (-1)^neg * m * 2^e with m = 0 or 2^52 <= m < 2^53.  Intermediate        *)
(* results are bound through singleton sets, which makes each of them be   *)
(* computed once.                                                          *)
(***************************************************************************)
F64_MANTISSA_DIGITS == 53

Only(S) == CHOOSE x \in S : TRUE

F64Zero(neg) == [neg |-> neg, m |-> <<>>, e |-> 0]

\* n / d scaled by 2^s so that the quotient has exactly 53 bits
F64Scale(n, d) ==
  LET s0 == F64_MANTISSA_DIGITS - (BitLen(n) - BitLen(d))
      n1 == IF s0 >= 0 THEN Shl(n, s0) ELSE n
      d1 == IF s0 >= 0 THEN d ELSE Shl(d, 0 - s0)
      \* n1 / d1 lies in (2^52, 2^54): halve once more if it has 54 bits
      big == BCmp(n1, Shl(d1, F64_MANTISSA_DIGITS)) >= 0
  IN  [n |-> n1, d |-> IF big THEN Shl(d1, 1) ELSE d1,
       s |-> IF big THEN s0 - 1 ELSE s0]

\* the quotient rounded to the nearest integer, ties to even
RoundHalfEven(qr, d) ==
  LET c == BCmp(Shl(qr.rem, 1), d)
  IN  IF c > 0 \/ (c = 0 /\ BitAt(qr.quot, 0) = 1)
      THEN BAdd(qr.quot, <<1>>)
      ELSE qr.quot

\* a rounded significand of 53 bits, or 2^53 after a carry
F64Pack(neg, q, e) ==
  IF BitLen(q) > F64_MANTISSA_DIGITS
  THEN [neg |-> neg, m |-> Shr(q, 1), e |-> e + 1]
  ELSE [neg |-> neg, m |-> q, e |-> e]

\* The f64 nearest to (-1)^neg * (n / d) * 2^e, ties to even: the rounding
\* every f64 operation applies to its exact result.
F64Round(neg, n, d, e) ==
  IF n = <<>> THEN F64Zero(neg)
  ELSE Only({ Only({ F64Pack(neg, q, e - sc.s) :
                       q \in { Only({ RoundHalfEven(qr, sc.d) :
                                        qr \in {BDivMod(sc.n, sc.d)} }) } }) :
                sc \in {F64Scale(n, d)} })

\* An integer literal or an integer converted with `as f64`
F64FromInt(i) ==
  IF i < 0 THEN F64Round(TRUE, DigitsOf(0 - i), <<1>>, 0)
  ELSE F64Round(FALSE, DigitsOf(i), <<1>>, 0)

\* x * y for f64 values x and y
F64Mul(x, y) ==
  Only({ F64Round(x.neg # y.neg, p, <<1>>, x.e + y.e) : p \in {BMul(x.m, y.m)} })

\* x / y for f64 values x and y # 0
F64Div(x, y) == F64Round(x.neg # y.neg, x.m, y.m, x.e - y.e)

\* faulty variant of F64ToUsize: the sign is dropped
F64ToUsize_magnitude(x) ==
  IF x.m = <<>> THEN 0
  ELSE IF x.e >= 0 THEN NatOf(Shl(x.m, x.e))
  ELSE NatOf(Shr(x.m, 0 - x.e))

\* `x as usize`: the fraction is discarded; the cast saturates, so a
\* negative value gives 0
F64ToUsize(x) ==
  IF x.m = <<>> \/ x.neg THEN 0
  ELSE IF x.e >= 0 THEN NatOf(Shl(x.m, x.e))
  ELSE NatOf(Shr(x.m, 0 - x.e))

(***************************************************************************)
(* Bounds of the model.                                                    *)
(***************************************************************************)
\* period_in_ms() of the policy object in the loop specifications
LoopTickPeriods == {8}
\* StartProbe targets (kbps) the controller sends in the loop specifications
LoopKbps == {0, 3, 11}
RampKbps == {-8, 0, 3, 5, 11}
\* tick periods and targets of the pacer specification
PacerTickPeriods == {1, 8, 15, 20}
MaxKbps == 12
PacerKbps == (0 .. MaxKbps) \cup {800}
\* sizes next_datum() returns, rates of ToRate
ChunkSizes == {0, 1, 2}
Rates == {1}
\* at most MaxTicks non-idle ticks per run
MaxTicks == 2
\* at most MaxSent control signals per run; at most MaxInbox of them wait
\* in the runs that record the signals sent, one fewer in the others
MaxSent == 3
MaxInbox == 2
\* runs of probe signals only: at most MaxRamp signals, one tick fewer,
\* and chunks of at most one byte
MaxRamp == 7
RampChunkSizes == {0, 1}

(***************************************************************************)
(* AsDatum (defined outside source.rs): a level and a payload length.      *)
(***************************************************************************)
PROBE_LEVEL == -1

\* AsDatum::probe(size)
AsDatum_probe(size) == [level |-> PROBE_LEVEL, len |-> size]

\* AsDatum::new(level, vec![0; size])
AsDatum_new(level, size) == [level |-> level, len |-> size]

(***************************************************************************)
(* ProbeTracker.  target_in_kbps holds an f64; the model keeps the integer *)
(* it was converted from.                                                  *)
(***************************************************************************)
NUM_PROBE_REQUIRED == 5

ProbeTracker_new(tick_period) ==
  [tick_period |-> tick_period, target_in_kbps |-> 0,
   target_pace |-> 0, delta |-> 0, pace |-> 0]

\* The f64 literals of start_probe
F64_1000 == F64FromInt(1000)
F64_8 == F64FromInt(8)

\* The f64 computation of start_probe up to the `as usize` cast:
\*   bytes_per_sec = target_in_kbps * 1000.0 / 8.0
\*   ticks_per_sec = 1000.0 / tick_period as f64
\*   size_per_tick = bytes_per_sec / ticks_per_sec
size_per_tick(tick_period, kbps) ==
  Only({ F64Div(bytes_per_sec, ticks_per_sec) :
           bytes_per_sec \in
             { F64Div(product, F64_8) :
                 product \in { F64Mul(target_in_kbps, F64_1000) :
                                 target_in_kbps \in {F64FromInt(kbps)} } },
           ticks_per_sec \in
             { F64Div(F64_1000, period) : period \in {F64FromInt(tick_period)} } })

\* size_per_tick as usize, tabulated once for the inputs of the model
AllTickPeriods == LoopTickPeriods \cup PacerTickPeriods
AllKbps == LoopKbps \cup RampKbps \cup PacerKbps
TargetPaceTable ==
  [t \in AllTickPeriods |-> [k \in AllKbps |-> Only({F64ToUsize(x) : x \in {size_per_tick(t, k)}})]]

start_probe(self, additional_kbps) ==
  LET target_pace == TargetPaceTable[self.tick_period][additional_kbps]
      delta == target_pace \div NUM_PROBE_REQUIRED
  IN  [self EXCEPT !.target_in_kbps = additional_kbps,
                   !.target_pace = target_pace,
                   !.delta = delta,
                   !.pace = delta]

\* faulty variant of inc_pace: a saturated ramp starts over from delta
inc_pace_restart(self) ==
  IF self.pace < self.target_pace
  THEN [self |-> [self EXCEPT !.pace = self.pace + self.delta], ret |-> TRUE]
  ELSE [self |-> [self EXCEPT !.pace = self.delta], ret |-> FALSE]

\* faulty variant of inc_pace: the test is pace <= target_pace
inc_pace_inclusive(self) ==
  IF self.pace <= self.target_pace
  THEN [self |-> [self EXCEPT !.pace = self.pace + self.delta], ret |-> TRUE]
  ELSE [self |-> self, ret |-> FALSE]

\* inc_pace: the new tracker and the returned bool
inc_pace(self) ==
  IF self.pace < self.target_pace
  THEN [self |-> [self EXCEPT !.pace = self.pace + self.delta], ret |-> TRUE]
  ELSE [self |-> self, ret |-> FALSE]

\* faulty variant of stop_probe: delta is left as it was
stop_probe_keeps_delta(self) ==
  [self EXCEPT !.target_in_kbps = 0, !.target_pace = 0, !.pace = 0]

stop_probe(self) ==
  [self EXCEPT !.target_in_kbps = 0, !.target_pace = 0, !.pace = 0, !.delta = 0]

\* faulty variant of next: it tests pace where the code tests target_pace
next_when_paced(self) ==
  IF self.pace > 0 THEN <<AsDatum_probe(self.pace)>> ELSE <<>>

\* next: Option<AsDatum> as a sequence of length 0 (None) or 1 (Some)
next(self) ==
  IF self.target_pace > 0 THEN <<AsDatum_probe(self.pace)>> ELSE <<>>

(***************************************************************************)
(* The policy object (Adapt + Experiment), defined outside source.rs.      *)
(***************************************************************************)
source_new == [level |-> 0]
current_level(src) == src.level
adapt(src, rate) == [src EXCEPT !.level = rate]
dec_degradation(src) == [src EXCEPT !.level = IF src.level > 0 THEN src.level - 1 ELSE 0]

(***************************************************************************)
(* AdaptSignal values.                                                     *)
(***************************************************************************)
ToRate(rate) == [sig |-> "ToRate", arg |-> rate]
DecreaseDegradation == [sig |-> "DecreaseDegradation", arg |-> 0]
StartProbe(kbps) == [sig |-> "StartProbe", arg |-> kbps]
IncreaseProbePace == [sig |-> "IncreaseProbePace", arg |-> 0]
StopProbe == [sig |-> "StopProbe", arg |-> 0]

ProbeSignals(kbps) ==
  {StartProbe(k) : k \in kbps} \cup {IncreaseProbePace, StopProbe}

AdaptSignals(kbps) ==
  {ToRate(r) : r \in Rates} \cup {DecreaseDegradation} \cup ProbeSignals(kbps)

VARIABLES
  prober,      \* the loop's ProbeTracker
  source,      \* the policy object moved into the loop
  probe_done,  \* the AtomicBool shared with the caller
  counter,     \* the AtomicUsize shared with the caller
  data_tx,     \* the units the data channel has accepted, oldest first
  data_rx,     \* TRUE while the caller holds the data channel's receiver
  adapt_rx,    \* control signals sent and not yet taken by the loop
  work,        \* "running", "failed" (the closure returned Err) or "panicked"
  incoming,    \* history: the event the closure handled last
  session,     \* history: the probing session in progress
  sent,        \* history: the control signals sent (when recorded)
  handled      \* history: the number of control signals handled

vars == <<prober, source, probe_done, counter, data_tx, data_rx, adapt_rx,
          work, incoming, session, sent, handled>>

\* No session: steps counts the IncreaseProbePace signals handled in the
\* session, saturated those that found pace >= target_pace, flips the
\* false-to-true changes of probe_done; begun_done is probe_done as the
\* session began; stray records an IncreaseProbePace handled outside sessions.
NoSession ==
  [active |-> FALSE, steps |-> 0, saturated |-> 0, flips |-> 0,
   begun_done |-> FALSE, stray |-> FALSE]

\* TimerSource::spawn up to handle.spawn(work)
Spawn(tick_periods) ==
  /\ prober \in {ProbeTracker_new(t) : t \in tick_periods}
  /\ source = source_new
  /\ probe_done = FALSE
  /\ counter = 0
  /\ data_tx = <<>>
  /\ data_rx = TRUE
  /\ adapt_rx = <<>>
  /\ work = "running"
  /\ incoming = [kind |-> "None", arg |-> 0, ret |-> FALSE]
  /\ session = NoSession
  /\ sent = <<>>
  /\ handled = 0

Init == Spawn(LoopTickPeriods)

(***************************************************************************)
(* The caller's side of the channels.                                      *)
(***************************************************************************)
\* adapt_tx.unbounded_send(sig), for a run of at most cap signals of which
\* at most inbox wait; record says whether the history keeps the signal
Send(sig, cap, inbox, record) ==
  /\ Len(adapt_rx) < inbox
  /\ handled + Len(adapt_rx) < cap
  /\ adapt_rx' = Append(adapt_rx, sig)
  /\ sent' = IF record THEN Append(sent, sig) ELSE sent
  /\ UNCHANGED <<prober, source, probe_done, counter, data_tx, data_rx,
                 work, incoming, session, handled>>

\* the caller drops the data receiver
DropReceiver ==
  /\ data_rx
  /\ data_rx' = FALSE
  /\ UNCHANGED <<prober, source, probe_done, counter, data_tx, adapt_rx,
                 work, incoming, session, sent, handled>>

(***************************************************************************)
(* The closure of for_each.                                                *)
(***************************************************************************)
\* faulty variant of fetch_add_send: the result of the send is dropped
fetch_add_send_unchecked(st, unit, receiver) ==
  [counter |-> st.counter + unit.len,
   data_tx |-> IF receiver THEN Append(st.data_tx, unit) ELSE st.data_tx,
   ok      |-> TRUE]

\* faulty variant of fetch_add_send: it counts units, not bytes
fetch_add_send_units(st, unit, receiver) ==
  [counter |-> st.counter + 1,
   data_tx |-> IF receiver THEN Append(st.data_tx, unit) ELSE st.data_tx,
   ok      |-> receiver]

\* counter.fetch_add(unit.len()) followed by data_tx.unbounded_send(unit):
\* st is [counter, data_tx, ok]; the send fails when the receiver is gone.
fetch_add_send(st, unit, receiver) ==
  [counter |-> st.counter + unit.len,
   data_tx |-> IF receiver THEN Append(st.data_tx, unit) ELSE st.data_tx,
   ok      |-> receiver]

\* the regular unit of a tick, counted and sent
send_regular(size, src, st, receiver) ==
  LET s2 == [counter |-> st.counter + size,
             data_tx |-> IF receiver
                         THEN Append(st.data_tx, AsDatum_new(src.level, size))
                         ELSE st.data_tx]
  IN  [counter |-> s2.counter, data_tx |-> s2.data_tx,
       work |-> IF receiver THEN "running" ELSE "failed"]

\* faulty variant of timer_arm: no early return for an empty chunk
timer_arm_no_skip(size, self, src, st, receiver) ==
  IF self.target_pace > 0 /\ ~receiver
  THEN [counter |-> st.counter + self.pace, data_tx |-> st.data_tx, work |-> "panicked"]
  ELSE send_regular(size, src,
                    IF self.target_pace > 0
                    THEN [counter |-> st.counter + self.pace,
                          data_tx |-> Append(st.data_tx, AsDatum_probe(self.pace))]
                    ELSE st,
                    receiver)

\* faulty variant of timer_arm: the probe unit follows the regular unit
timer_arm_probe_last(size, self, src, st, receiver) ==
  IF size = 0 THEN [counter |-> st.counter, data_tx |-> st.data_tx, work |-> "running"]
  ELSE
    LET r == send_regular(size, src, st, receiver)
    IN  IF r.work = "running" /\ self.target_pace > 0
        THEN [r EXCEPT !.counter = @ + self.pace,
                       !.data_tx = Append(@, AsDatum_probe(self.pace))]
        ELSE r

\* The Timer arm for a next_datum() result of size: the counter, the data
\* channel and the state of the loop afterwards.
timer_arm(size, self, src, st, receiver) ==
  IF size = 0 THEN [counter |-> st.counter, data_tx |-> st.data_tx, work |-> "running"]
  ELSE
    LET p  == next(self)
        s1 == IF p # <<>> THEN fetch_add_send(st, p[1], receiver) ELSE st
    IN  IF ~s1.ok
        THEN [counter |-> s1.counter, data_tx |-> s1.data_tx, work |-> "panicked"]
        ELSE LET data_to_send == AsDatum_new(current_level(src), size)
                 s2 == fetch_add_send(s1, data_to_send, receiver)
             IN  [counter |-> s2.counter, data_tx |-> s2.data_tx,
                  work |-> IF s2.ok THEN "running" ELSE "failed"]

NonIdleTicks == Cardinality({i \in 1 .. Len(data_tx) : data_tx[i].level # PROBE_LEVEL})

\* the timer stream yields; cap bounds the non-idle ticks of the run
Timer(size, cap) ==
  /\ work = "running"
  /\ size = 0 \/ NonIdleTicks < cap
  /\ LET r == timer_arm(size, prober, source,
                        [counter |-> counter, data_tx |-> data_tx, ok |-> TRUE],
                        data_rx)
     IN  /\ counter' = r.counter
         /\ data_tx' = r.data_tx
         /\ work' = r.work
  /\ incoming' = [kind |-> "Timer", arg |-> size, ret |-> FALSE]
  /\ UNCHANGED <<prober, source, probe_done, data_rx, adapt_rx, session,
                 sent, handled>>

\* faulty variants of store_probe_done: the flag is inverted on saturation;
\* the flag is overwritten with the negated result of inc_pace
store_probe_done_toggle(done, increased) == IF ~increased THEN ~done ELSE done
store_probe_done_overwrite(done, increased) == ~increased

\* probe_done after the IncreaseProbePace arm, given inc_pace's result
store_probe_done(done, increased) == IF ~increased THEN TRUE ELSE done

\* faulty variant of adapt_arm: a new rate also stops the probe
adapt_arm_rate_stops(signal, self, src, done) ==
  CASE signal.sig = "ToRate" ->
         [prober |-> stop_probe(self), source |-> adapt(src, signal.arg),
          probe_done |-> done, ret |-> FALSE]
    [] signal.sig = "DecreaseDegradation" ->
         [prober |-> self, source |-> dec_degradation(src), probe_done |-> done, ret |-> FALSE]
    [] signal.sig = "StartProbe" ->
         [prober |-> start_probe(self, signal.arg), source |-> src, probe_done |-> done, ret |-> FALSE]
    [] signal.sig = "IncreaseProbePace" ->
         [prober |-> inc_pace(self).self, source |-> src,
          probe_done |-> IF inc_pace(self).ret THEN done ELSE TRUE,
          ret |-> inc_pace(self).ret]
    [] signal.sig = "StopProbe" ->
         [prober |-> stop_probe(self), source |-> src, probe_done |-> done, ret |-> FALSE]

\* The Adapt arms: the tracker, the policy and the flag afterwards.
adapt_arm(signal, self, src, done) ==
  CASE signal.sig = "ToRate" ->
         [prober |-> self, source |-> adapt(src, signal.arg), probe_done |-> done, ret |-> FALSE]
    [] signal.sig = "DecreaseDegradation" ->
         [prober |-> self, source |-> dec_degradation(src), probe_done |-> done, ret |-> FALSE]
    [] signal.sig = "StartProbe" ->
         [prober |-> start_probe(self, signal.arg), source |-> src, probe_done |-> done, ret |-> FALSE]
    [] signal.sig = "IncreaseProbePace" ->
         LET r == inc_pace(self)
         IN  [prober |-> r.self, source |-> src,
              probe_done |-> store_probe_done(done, r.ret), ret |-> r.ret]
    [] signal.sig = "StopProbe" ->
         [prober |-> stop_probe(self), source |-> src, probe_done |-> done, ret |-> FALSE]

\* History of the session: a session runs from a StartProbe to the next
\* StartProbe or StopProbe.
session_after(signal, ret, done, done2) ==
  CASE signal.sig = "StartProbe" ->
         [NoSession EXCEPT !.active = TRUE, !.begun_done = done,
                           !.stray = session.stray]
    [] signal.sig = "StopProbe" -> [NoSession EXCEPT !.stray = session.stray]
    [] signal.sig = "IncreaseProbePace" /\ session.active ->
         [session EXCEPT !.steps = @ + 1,
                         !.saturated = IF ret THEN @ ELSE @ + 1,
                         !.flips = IF ~done /\ done2 THEN @ + 1 ELSE @]
    [] signal.sig = "IncreaseProbePace" /\ ~session.active ->
         [session EXCEPT !.stray = TRUE]
    [] OTHER -> session

\* faulty variant of adapt_rx_poll: the newest signal is taken first
adapt_rx_poll_newest(queue) ==
  [item |-> queue[Len(queue)], rest |-> SubSeq(queue, 1, Len(queue) - 1)]

\* the channel hands the loop its oldest signal
adapt_rx_poll(queue) == [item |-> Head(queue), rest |-> Tail(queue)]

\* The adapter stream yields a signal and the closure handles it; history
\* says whether the step is entered in the histories session and handled.
AdaptStep(history) ==
  /\ work = "running"
  /\ adapt_rx # <<>>
  /\ LET got == adapt_rx_poll(adapt_rx)
         r == adapt_arm(got.item, prober, source, probe_done)
     IN  /\ adapt_rx' = got.rest
         /\ prober' = r.prober
         /\ source' = r.source
         /\ probe_done' = r.probe_done
         /\ incoming' = [kind |-> got.item.sig, arg |-> got.item.arg, ret |-> r.ret]
         /\ session' = IF history
                       THEN session_after(got.item, r.ret, probe_done, r.probe_done)
                       ELSE session
  /\ handled' = IF history THEN handled + 1 ELSE handled
  /\ UNCHANGED <<counter, data_tx, data_rx, work, sent>>

Adapt == AdaptStep(TRUE)

Next ==
  \/ \E sig \in AdaptSignals(LoopKbps) : Send(sig, MaxSent, MaxInbox - 1, FALSE)
  \/ DropReceiver
  \/ \E size \in ChunkSizes : Timer(size, MaxTicks)
  \/ Adapt

Spec == Init /\ [][Next]_vars

(***************************************************************************)
(* Runs in which the controller sends probe signals only.                  *)
(***************************************************************************)
NextRamp ==
  \/ \E sig \in ProbeSignals(RampKbps) : Send(sig, MaxRamp, MaxInbox - 1, FALSE)
  \/ \E size \in RampChunkSizes : Timer(size, MaxTicks - 1)
  \/ Adapt

SpecRamp == Init /\ [][NextRamp]_vars

(***************************************************************************)
(* The ProbeTracker alone: its methods called in any order, for every tick *)
(* period and target of the pacer bounds.                                  *)
(***************************************************************************)
InitPacer == Spawn(PacerTickPeriods)

Call(kind, arg, ret, self) ==
  /\ prober' = self
  /\ incoming' = [kind |-> kind, arg |-> arg, ret |-> ret]
  /\ UNCHANGED <<source, probe_done, counter, data_tx, data_rx, adapt_rx,
                 work, session, sent, handled>>

CallStartProbe(kbps) == Call("StartProbe", kbps, FALSE, start_probe(prober, kbps))

CallIncPace ==
  LET r == inc_pace(prober) IN Call("IncreaseProbePace", 0, r.ret, r.self)

CallStopProbe == Call("StopProbe", 0, FALSE, stop_probe(prober))

NextPacer ==
  \/ \E kbps \in PacerKbps : CallStartProbe(kbps)
  \/ CallIncPace
  \/ CallStopProbe

SpecPacer == InitPacer /\ [][NextPacer]_vars
(***************************************************************************)
(* Runs in which the history keeps the control signals as they were sent.  *)
(***************************************************************************)
NextFifo ==
  \/ \E sig \in AdaptSignals(LoopKbps) : Send(sig, MaxSent, MaxInbox, TRUE)
  \/ \E size \in RampChunkSizes : Timer(size, MaxTicks - 1)
  \/ Adapt

SpecFifo == Init /\ [][NextFifo]_vars

(***************************************************************************)
(* Runs of one ramp: the controller sends a StartProbe and then            *)
(* IncreaseProbePace signals for ever, and every signal sent is handled.   *)
(* The histories session and handled are not kept, which keeps the states  *)
(* finite.                                                                 *)
(***************************************************************************)
SendStart ==
  /\ sent = <<>>
  /\ \E kbps \in RampKbps : Send(StartProbe(kbps), MaxSent, MaxInbox - 1, TRUE)

SendIncrease ==
  /\ sent # <<>>
  /\ Send(IncreaseProbePace, MaxSent, MaxInbox - 1, FALSE)

AdaptLive == AdaptStep(FALSE)

NextLive ==
  \/ SendStart
  \/ SendIncrease
  \/ \E size \in RampChunkSizes : Timer(size, MaxTicks - 1)
  \/ AdaptLive

SpecLive ==
  Init /\ [][NextLive]_vars /\ WF_vars(SendIncrease) /\ WF_vars(AdaptLive)

(***************************************************************************)
(* Properties.                                                             *)
(***************************************************************************)

\* C1: while a probing session is active, 0 <= pace <= target_pace.
C1_PaceWithinTarget ==
  session.active => (0 <= prober.pace /\ prober.pace <= prober.target_pace)

\* C2 (as stated), for runs whose IncreaseProbePace signals all fall inside
\* sessions: in every session in which an IncreaseProbePace found the pacer
\* saturated, probe_done went from false to true exactly once.
C2_OncePerSession ==
  (~session.stray /\ session.active /\ session.saturated >= 1) => session.flips = 1

\* C2 (amended): probe_done goes from false to true at most once in a
\* session and only on a saturated IncreaseProbePace; once an
\* IncreaseProbePace of the session found the pacer saturated the flag is
\* true, and it made its one transition in that session exactly when the
\* session began with the flag false.
C2_OncePerRun ==
  /\ session.flips <= 1
  /\ session.flips <= session.saturated
  /\ (session.active /\ session.saturated >= 1) =>
       (probe_done /\ (session.flips = 1 <=> ~session.begun_done))

\* a second session, begun with the flag set, saturates without a transition
C2_SecondSession ==
  /\ ~session.stray /\ session.active /\ session.begun_done
  /\ session.saturated >= 1 /\ session.flips = 0

\* C3: once probe_done is true no step of the system makes it false.
C3_Sticky == [][probe_done => probe_done']_vars

\* a later session has raised its pace with the flag still set
C3_LaterSession ==
  /\ probe_done /\ session.active /\ session.begun_done
  /\ incoming.kind = "IncreaseProbePace" /\ incoming.ret

RECURSIVE PayloadSum(_)
PayloadSum(q) == IF q = <<>> THEN 0 ELSE Head(q).len + PayloadSum(Tail(q))

\* C4: while the consumer holds the receiver, the counter is the sum of the
\* payload lengths of all units enqueued, probe and regular; the counter
\* never decreases.
C4_CounterIsBytesEnqueued ==
  /\ [](data_rx => counter = PayloadSum(data_tx))
  /\ [][counter' >= counter]_vars

\* two non-idle ticks, a non-empty probe unit among the units enqueued
C4_ProbeAndRegularCounted ==
  /\ data_rx /\ NonIdleTicks = 2
  /\ \E i \in 1 .. Len(data_tx) : data_tx[i].level = PROBE_LEVEL /\ data_tx[i].len > 0

\* C5: a tick whose chunk is empty enqueues nothing, leaves the counter and
\* the pacer alone.
C5_IdleTick ==
  [][(incoming'.kind = "Timer" /\ incoming'.arg = 0) =>
       UNCHANGED <<data_tx, counter, prober>>]_vars

\* an idle tick handled while a probe with a positive pace is active
C5_IdleWhileProbing ==
  incoming.kind = "Timer" /\ incoming.arg = 0 /\ prober.pace > 0

\* the units a step appended to the data channel
Enqueued == SubSeq(data_tx', Len(data_tx) + 1, Len(data_tx'))

IsProbe(unit) == unit.level = PROBE_LEVEL

\* C6: every non-idle tick enqueues its probe unit, if any, before its one
\* regular unit, which carries the current level and the chunk's size; so
\* the queue is a sequence of groups [regular] or [probe, regular] and a
\* probe unit is never last.
C6_ProbeBeforeRegular ==
  /\ [](\A i \in 1 .. Len(data_tx) :
          IsProbe(data_tx[i]) => (i < Len(data_tx) /\ ~IsProbe(data_tx[i + 1])))
  /\ [][\A size \in ChunkSizes \ {0} :
          (data_rx /\ Timer(size, MaxTicks)) =>
            /\ data_tx' = data_tx \o Enqueued
            /\ LET regular == [level |-> source.level, len |-> size]
               IN  \/ Enqueued = <<regular>>
                   \/ /\ Len(Enqueued) = 2
                      /\ IsProbe(Enqueued[1])
                      /\ Enqueued[2] = regular]_vars

\* a group without a probe unit followed by a group with one
C6_BothGroups ==
  /\ Len(data_tx) = 3
  /\ ~IsProbe(data_tx[1]) /\ IsProbe(data_tx[2]) /\ ~IsProbe(data_tx[3])

\* floor((kbps * 1000 / 8) / (1000 / tick_period)) in exact arithmetic
ExactPace(kbps, tick_period) == (kbps * 1000 * tick_period) \div (8 * 1000)

\* C7: after start_probe(kbps), kbps > 0, target_pace is
\* floor(kbps*1000/8 / (1000/tick_period)), delta is target_pace div 5 and
\* pace is delta.
C7_TargetIsExactFloor ==
  (incoming.kind = "StartProbe" /\ incoming.arg > 0) =>
    /\ prober.target_pace = ExactPace(incoming.arg, prober.tick_period)
    /\ prober.delta = prober.target_pace \div NUM_PROBE_REQUIRED
    /\ prober.pace = prober.delta

\* the loop's state after handling signals in order, starting from st
RECURSIVE Replay(_, _)
Replay(signals, st) ==
  IF signals = <<>> THEN st
  ELSE Replay(Tail(signals),
              adapt_arm(Head(signals), st.prober, st.source, st.probe_done))

\* C8: control signals are handled in the order they were sent, none lost,
\* repeated or reordered: the signals waiting are the signals sent minus
\* the handled prefix, and the loop's state is the state that handling this
\* prefix in order produces.
C8_InOrder ==
  /\ handled <= Len(sent)
  /\ sent = SubSeq(sent, 1, handled) \o adapt_rx
  /\ LET st == Replay(SubSeq(sent, 1, handled),
                      [prober |-> ProbeTracker_new(prober.tick_period),
                       source |-> source_new, probe_done |-> FALSE, ret |-> FALSE])
     IN  prober = st.prober /\ source = st.source /\ probe_done = st.probe_done

\* StartProbe then IncreaseProbePace handled, a third signal waiting
C8_OrderMatters ==
  /\ handled = 2 /\ Len(adapt_rx) = 1
  /\ sent[1] = StartProbe(11) /\ sent[2] = IncreaseProbePace
  /\ prober.pace = 2 * prober.delta /\ prober.delta > 0

\* C9: a non-idle tick enqueues a probe unit exactly when target_pace > 0;
\* the unit has pace bytes and the probe level.
C9_ProbeIffTarget ==
  [][\A size \in ChunkSizes \ {0} :
       (data_rx /\ Timer(size, MaxTicks)) =>
         SelectSeq(Enqueued, IsProbe) =
           IF prober.target_pace > 0
           THEN <<[level |-> PROBE_LEVEL, len |-> prober.pace]>>
           ELSE <<>>]_vars

\* the last event was a non-idle tick that sent a probe unit of pace bytes
C9_ProbeSent ==
  /\ incoming.kind = "Timer" /\ incoming.arg > 0 /\ work = "running"
  /\ prober.target_pace > 0 /\ Len(data_tx) >= 2
  /\ data_tx[Len(data_tx) - 1] = [level |-> PROBE_LEVEL, len |-> prober.pace]

\* C10: when StartProbe gave a target_pace below 5, the first
\* IncreaseProbePace of the session finds the pacer saturated and sets
\* probe_done.
C10_SmallTargetSaturates ==
  (/\ session.active /\ session.steps = 1
   /\ incoming.kind = "IncreaseProbePace"
   /\ prober.target_pace < NUM_PROBE_REQUIRED) =>
    (~incoming.ret /\ session.saturated = 1 /\ probe_done)

\* C11: a StartProbe with a zero or negative target leaves target_pace,
\* delta and pace at 0 and the loop running; whenever StartProbe gave
\* target_pace 0, the first IncreaseProbePace of the session reports
\* saturation, sets probe_done and leaves the pacer at 0.
C11_DegenerateTarget ==
  /\ (incoming.kind = "StartProbe" /\ incoming.arg <= 0) =>
       /\ prober.target_pace = 0 /\ prober.delta = 0 /\ prober.pace = 0
       /\ prober.target_in_kbps = incoming.arg
       /\ work = "running"
  /\ (/\ session.active /\ session.steps = 1
      /\ incoming.kind = "IncreaseProbePace"
      /\ prober.target_pace = 0) =>
       /\ ~incoming.ret /\ probe_done /\ work = "running"
       /\ prober.delta = 0 /\ prober.pace = 0

\* the first IncreaseProbePace after a StartProbe with a negative target
C11_NegativeTargetCompleted ==
  /\ session.active /\ session.steps = 1 /\ ~session.begun_done
  /\ incoming.kind = "IncreaseProbePace"
  /\ prober.target_in_kbps < 0 /\ probe_done

AllZero(self) ==
  /\ self.target_in_kbps = 0 /\ self.target_pace = 0
  /\ self.pace = 0 /\ self.delta = 0

\* C12: outside a session (at creation and after StopProbe) target_in_kbps,
\* target_pace, pace and delta are all 0; stop_probe, called in any state,
\* zeroes the four, keeps tick_period, and a second stop_probe changes
\* nothing.
C12_ZeroWhenInactive ==
  /\ ~session.active => AllZero(prober)
  /\ AllZero(stop_probe(prober))
  /\ stop_probe(prober).tick_period = prober.tick_period
  /\ stop_probe(stop_probe(prober)) = stop_probe(prober)

\* StopProbe handled after a session that ran to saturation
C12_StoppedAfterRamp ==
  /\ incoming.kind = "StopProbe" /\ ~session.active
  /\ probe_done /\ ~session.stray /\ AllZero(prober)

\* a step of the loop that handles an IncreaseProbePace inside a session
StepInSession == session.active /\ session'.steps = session.steps + 1

\* C13: inside a session every IncreaseProbePace raises pace by exactly
\* delta and reports an increase as long as the result stays within
\* target_pace; otherwise it leaves pace alone and reports saturation, so
\* pace never decreases and never passes target_pace.
C13_MonotoneRamp ==
  [][StepInSession =>
       IF prober.pace < prober.target_pace
          /\ prober.pace + prober.delta <= prober.target_pace
       THEN prober'.pace = prober.pace + prober.delta /\ incoming'.ret
       ELSE prober'.pace = prober.pace /\ ~incoming'.ret]_vars

\* inc_pace called n times, starting from self
RECURSIVE IncPaceTimes(_, _)
IncPaceTimes(self, n) ==
  IF n = 0 THEN [self |-> self, ret |-> TRUE]
  ELSE inc_pace(IncPaceTimes(self, n - 1).self)

\* C14: in a session whose target_pace is a positive multiple of 5, pace is
\* (k + 1) * delta after k <= 4 IncreaseProbePace signals, each reporting an
\* increase and none setting probe_done, and reaches target_pace with the
\* fourth; the fifth and later ones report saturation, leave pace at
\* target_pace and probe_done set.  For a tick period of 20 ms and 800 kbps
\* the values are 2000, 400 and 400, 800, 1200, 1600, 2000.
C14_FiveStepRamp ==
  /\ (/\ session.active /\ prober.target_pace > 0
      /\ prober.target_pace % NUM_PROBE_REQUIRED = 0) =>
       /\ prober.delta * NUM_PROBE_REQUIRED = prober.target_pace
       /\ IF session.steps < NUM_PROBE_REQUIRED
          THEN /\ prober.pace = (session.steps + 1) * prober.delta
               /\ session.saturated = 0 /\ session.flips = 0
               /\ probe_done = session.begun_done
               /\ incoming.kind = "IncreaseProbePace" => incoming.ret
          ELSE /\ prober.pace = prober.target_pace
               /\ session.saturated = session.steps - (NUM_PROBE_REQUIRED - 1)
               /\ probe_done
               /\ incoming.kind = "IncreaseProbePace" => ~incoming.ret
  /\ LET started == start_probe(ProbeTracker_new(20), 800)
     IN  /\ started.target_pace = 2000 /\ started.delta = 400 /\ started.pace = 400
         /\ \A n \in 1 .. 4 :
              /\ IncPaceTimes(started, n).self.pace = 400 * (n + 1)
              /\ IncPaceTimes(started, n).ret
         /\ IncPaceTimes(started, 5) =
              [self |-> IncPaceTimes(started, 4).self, ret |-> FALSE]

\* the fifth IncreaseProbePace of a session with target_pace 5 was the first
\* to report saturation and set probe_done
C14_FifthSaturates ==
  /\ session.active /\ session.steps = 5 /\ session.saturated = 1
  /\ session.flips = 1 /\ prober.target_pace = 5 /\ prober.pace = 5
  /\ incoming.kind = "IncreaseProbePace" /\ ~incoming.ret /\ probe_done

\* C15: once a StartProbe has been sent and IncreaseProbePace signals keep
\* being handled, pace eventually reaches target_pace and probe_done
\* eventually is true.
C15_RampTerminates ==
  (sent # <<>>) ~> (probe_done /\ prober.pace >= prober.target_pace)

\* C16: with the receiver of the data channel gone, a non-idle tick enqueues
\* nothing and ends the loop, by a panic when a probe unit was to be sent
\* and by an error result otherwise; once the loop has ended no step
\* changes the pacer, the policy, probe_done, the counter or the data
\* channel, and the loop does not resume.
C16_FailStop ==
  /\ [][\A size \in ChunkSizes \ {0} :
          (~data_rx /\ Timer(size, MaxTicks)) =>
            /\ data_tx' = data_tx
            /\ work' = IF prober.target_pace > 0 THEN "panicked" ELSE "failed"]_vars
  /\ [][work # "running" =>
          UNCHANGED <<prober, source, probe_done, counter, data_tx, work,
                      incoming, handled>>]_vars

\* the loop has panicked on a probe unit and a control signal stays unhandled
C16_PanickedWithSignalWaiting ==
  work = "panicked" /\ ~data_rx /\ adapt_rx # <<>> /\ prober.target_pace > 0

\* C17: a timer tick, a ToRate and a DecreaseDegradation leave every field
\* of the pacer and probe_done as they were; no step changes tick_period.
C17_PacerFrame ==
  /\ [][incoming'.kind \in {"Timer", "ToRate", "DecreaseDegradation"} =>
          UNCHANGED <<prober, probe_done>>]_vars
  /\ [][prober'.tick_period = prober.tick_period]_vars

\* a ToRate handled in the middle of a ramp
C17_RateDuringRamp ==
  /\ incoming.kind = "ToRate" /\ session.active
  /\ prober.pace > 0 /\ source.level > 0

\* C18: after an IncreaseProbePace of the session has reported saturation,
\* every further IncreaseProbePace reports saturation again and leaves the
\* pacer, the counter and the data channel as they were and probe_done
\* true; the loop goes on: a non-idle tick still sends a probe unit of pace
\* bytes, and a StopProbe zeroes the pacer and ends the session.
C18_SaturatedNotTerminal ==
  /\ [][(StepInSession /\ session.saturated >= 1) =>
          /\ UNCHANGED <<prober, counter, data_tx>>
          /\ probe_done /\ probe_done' /\ ~incoming'.ret
          /\ work' = "running"]_vars
  /\ [][\A size \in RampChunkSizes \ {0} :
          (session.saturated >= 1 /\ Timer(size, MaxTicks - 1)) =>
            /\ work' = "running"
            /\ prober.target_pace > 0 =>
                 (Len(Enqueued) = 2 /\ Enqueued[1] = AsDatum_probe(prober.pace))]_vars
  /\ [][(/\ session.saturated >= 1
         /\ incoming'.kind = "StopProbe" /\ handled' = handled + 1) =>
          (AllZero(prober') /\ ~session'.active /\ work' = "running")]_vars

\* a tick that sent a probe unit after two saturated IncreaseProbePace
C18_TickAfterSaturation ==
  /\ session.active /\ session.saturated >= 2 /\ probe_done
  /\ incoming.kind = "Timer" /\ incoming.arg > 0 /\ work = "running"
  /\ prober.target_pace > 0 /\ Len(data_tx) = 2
  /\ data_tx[1] = AsDatum_probe(prober.pace)

\* C19: an IncreaseProbePace handled outside every session (before any
\* StartProbe, or after a StopProbe) leaves probe_done as it was, so that
\* probe_done is true only if it was set during a session.
C19_SetOnlyWhileProbing ==
  [][(/\ ~session.active
      /\ incoming'.kind = "IncreaseProbePace" /\ handled' = handled + 1) =>
       probe_done' = probe_done]_vars

\* C20: every probe unit on the data channel has at least one byte.
C20_NoEmptyProbe ==
  \A i \in 1 .. Len(data_tx) : IsProbe(data_tx[i]) => data_tx[i].len >= 1
====
